---- MODULE Spec2Model ----
(***************************************************************************)
(* Model of the PMS reconciliation engine (hotel/pms_functions.py,        *)
(* hotel/pms_systems.py, hotel/constants.py): the retrying API client,    *)
(* the status mapper, the guest resolver, the stay reconciler and the     *)
(* Mews webhook handler, over a Guest table and a Stay table.             *)
(*                                                                         *)
(* Five specifications share the variables:                               *)
(*   SpecRetry  api_call_with_retries, one loop iteration per step;       *)
(*   SpecStay   direct calls of create_or_update_stay;                    *)
(*   SpecDate   calls of date_is_valid;                                   *)
(*   SpecRace   two concurrent calls of create_or_update_stay for one     *)
(*              key, one database operation per step;                     *)
(*   Spec       webhook deliveries, the daily job, the breakfast          *)
(*              question, guest resolutions and reconciliations against   *)
(*              an upstream API whose data changes over time.             *)
(* Except in SpecRace, operations run one after the other, as in the      *)
(* source (no threads).                                                    *)
(***************************************************************************)
EXTENDS Integers, Sequences, FiniteSets, TLC

VARIABLES
    guests,         \* the Guest table: a set of rows [id, phone, name]
    stays,          \* the Stay table: a set of rows
    upstream,       \* what the external PMS API currently answers
    last,           \* the last operation: its inputs and what it gave back
    nops,           \* number of operations performed so far
    pc,             \* api_call_with_retries: "idle", "loop", "returned", "raised"
    apiname,        \* api_call_with_retries: the wrapped operation
    i,              \* api_call_with_retries: the loop counter
    calls,          \* invocations of the wrapped operation in the current call
    failed,         \* failed attempts seen so far in the current call
    outcome,        \* what the latest invocation of the wrapped operation did
    payload_dict,   \* the value api_call_with_retries returned
    workers,        \* concurrent calls of create_or_update_stay: each one's position and locals
    lock,           \* the worker holding the lock on the Stay key, or None
    env             \* whether callers take that lock, and whether the store enforces the unique key

storevars == <<guests, stays, upstream, last, nops>>
retryvars == <<pc, apiname, i, calls, failed, outcome, payload_dict>>
racevars == <<workers, lock, env>>
vars == <<guests, stays, upstream, last, nops, pc, apiname, i, calls, failed,
          outcome, payload_dict, workers, lock, env>>

\* ------------------------------------------------------------------ bounds
\* Operations per behaviour, and events per webhook payload.
MaxOps == 2
MaxEvents == 2

\* ------------------------------------------------------------------ values
None == "None"

RIds == {"R1", "R2"}
GIds == {"G1", "G2"}
Phones == {"+15551234567", "+15557654321"}
Names == {"Ann", "Bob", ""}
CheckIns == {None, "2024-05-01"}
CheckOuts == {None, "2024-05-03"}
PmsHotelIds == {"H1", "H2", "HX"}

\* Hotel rows; hotels are looked up, never created. No row has pms id "HX".
HotelTable == {[id |-> 1, pms_hotel_id |-> "H1"], [id |-> 2, pms_hotel_id |-> "H2"]}
Unbound == [id |-> 0, pms_hotel_id |-> None]

\* ------------------------------------------------------------------ status mapper
\* (a table that maps a no-show to a cancellation)
MappingNoShowCancel ==
    [in_house |-> "INSTAY", checked_out |-> "AFTER", cancelled |-> "CANCEL",
     no_show |-> "CANCEL", not_confirmed |-> "BEFORE", booked |-> "BEFORE"]

\* (a table that knows one more vendor string)
MappingWithConfirmed ==
    [in_house |-> "INSTAY", checked_out |-> "AFTER", cancelled |-> "CANCEL",
     no_show |-> "UNKNOWN", not_confirmed |-> "BEFORE", booked |-> "BEFORE",
     confirmed |-> "BEFORE"]

RESERVATION_STATUS_MAPPING ==
    [in_house |-> "INSTAY", checked_out |-> "AFTER", cancelled |-> "CANCEL",
     no_show |-> "UNKNOWN", not_confirmed |-> "BEFORE", booked |-> "BEFORE"]

StatusStrs == DOMAIN RESERVATION_STATUS_MAPPING \cup {"confirmed"}

\* ------------------------------------------------------------------ retrying API client
RetryLimit == 20

ApiNames == {"get_reservation_details", "get_guest_details",
             "get_reservations_for_given_checkin_date"}

\* What one invocation of the wrapped operation can do: raise APIError, raise
\* another exception, or return a text.
\* (None: the operation returned no text at all)
Texts == {"{\"HotelId\": \"H1\"}", "[]", "{\"HotelId\": ", "", None}
NoOutcome == [kind |-> "none", text |-> ""]
AttemptOutcomes ==
    {[kind |-> "APIError", text |-> ""], [kind |-> "Exception", text |-> ""]}
    \cup {[kind |-> "payload", text |-> t] : t \in Texts}

\* json.loads: the parsed value, or a JSONDecodeError
json_loads(text) ==
    CASE text = "{\"HotelId\": \"H1\"}" -> [ok |-> TRUE, val |-> "dict:HotelId=H1"]
      [] text = "[]" -> [ok |-> TRUE, val |-> "list:empty"]
      [] OTHER -> [ok |-> FALSE, val |-> None]

\* (a loop that allows one attempt more)
LoopContinuesInclusive(n) == n <= RetryLimit

\* the loop condition
LoopContinues(n) == n < RetryLimit

\* the counter after a failed attempt
NextI(n) == n + 1

\* a call starts: i = 0
Call ==
    /\ pc \in {"idle", "returned", "raised"}
    /\ \E name \in ApiNames : apiname' = name
    /\ pc' = "loop"
    /\ i' = 0
    /\ calls' = 0
    /\ failed' = 0
    /\ outcome' = NoOutcome
    /\ payload_dict' = None
    /\ UNCHANGED <<storevars, racevars>>

\* one iteration of the while loop: invoke, decode, return or log and count
Attempt ==
    /\ pc = "loop"
    /\ LoopContinues(i)
    /\ calls' = calls + 1
    /\ \E out \in AttemptOutcomes :
          /\ outcome' = out
          /\ IF out.kind = "payload" /\ json_loads(out.text).ok
             THEN /\ pc' = "returned"
                  /\ payload_dict' = json_loads(out.text).val
                  /\ UNCHANGED <<i, failed>>
             ELSE /\ i' = NextI(i)
                  /\ failed' = failed + 1
                  /\ UNCHANGED <<pc, payload_dict>>
    /\ UNCHANGED <<apiname, storevars, racevars>>

\* the loop ends without a return: raise
GiveUp ==
    /\ pc = "loop"
    /\ ~LoopContinues(i)
    /\ pc' = "raised"
    /\ UNCHANGED <<apiname, i, calls, failed, outcome, payload_dict, storevars, racevars>>

\* (a client that never gives up)
api_call_never_raises(resp) == [ok |-> TRUE, val |-> resp]

\* api_call_with_retries as its callers see it: `fails` leading attempts fail,
\* then `payload` comes back; the parsed payload, or an exception.
api_call_with_retries(resp) ==
    IF resp.fails < RetryLimit THEN [ok |-> TRUE, val |-> resp] ELSE [ok |-> FALSE, val |-> resp]

\* ------------------------------------------------------------------ validators
\* A value handed to date_is_valid: None, a str (its characters) or an int
\* (its digits). A format: its directives and literal characters.
PyNone == [type |-> "NoneType", chars |-> <<>>]
PyStr(chars) == [type |-> "str", chars |-> chars]
PyInt(chars) == [type |-> "int", chars |-> chars]

DateValues ==
    {PyNone, PyStr(<<>>), PyInt(<<"2", "0", "2", "4", "0", "5", "0", "1">>),
     PyStr(<<"2", "0", "2", "4", "-", "0", "5", "-", "0", "1">>),
     PyStr(<<"2", "0", "2", "4", "-", "5", "-", "1">>),
     PyStr(<<"2", "0", "2", "4", "-", "0", "2", "-", "3", "0">>),
     PyStr(<<"2", "0", "2", "4", "-", "0", "2", "-", "2", "9">>),
     PyStr(<<"2", "0", "2", "3", "-", "0", "2", "-", "2", "9">>),
     PyStr(<<"1", "9", "0", "0", "-", "0", "2", "-", "2", "9">>),
     PyStr(<<"2", "0", "0", "0", "-", "0", "2", "-", "2", "9">>),
     PyStr(<<"0", "1", "/", "0", "5", "/", "2", "0", "2", "4">>),
     PyStr(<<"3", "1", "/", "0", "4", "/", "2", "0", "2", "4">>),
     PyStr(<<"2", "0", "2", "4", "-", "0", "5", "-", "0", "1", "1">>),
     PyStr(<<"2", "0", "2", "4", "-", "1", "3", "-", "0", "1">>),
     PyStr(<<"2", "0", "2", "4", "-", "0", "5", "-", "0", "0">>),
     PyStr(<<"2", "4", "-", "0", "5", "-", "0", "1">>),
     PyStr(<<"0", "0", "0", "0", "-", "0", "5", "-", "0", "1">>),
     PyStr(<<" ", "2", "0", "2", "4", "-", "0", "5", "-", "0", "1">>)}
DateFormats == {<<"%Y", "-", "%m", "-", "%d">>, <<"%d", "/", "%m", "/", "%Y">>}

DigitChars == <<"0", "1", "2", "3", "4", "5", "6", "7", "8", "9">>
IsDigit(c) == \E n \in DOMAIN DigitChars : DigitChars[n] = c
DigitVal(c) == (CHOOSE n \in DOMAIN DigitChars : DigitChars[n] = c) - 1
IsDigitAt(chars, n) == n <= Len(chars) /\ IsDigit(chars[n])
TwoDigits(chars) == 10 * DigitVal(chars[1]) + DigitVal(chars[2])

\* how many characters the directive takes from the front of chars (0: no
\* match), trying the alternatives of its pattern in their order:
\* %Y \d\d\d\d, %m 1[0-2]|0[1-9]|[1-9], %d 3[01]|[12]\d|0[1-9]|[1-9]| [1-9]
DirectiveTakes(directive, chars) ==
    CASE directive = "%Y" ->
            IF \A n \in 1..4 : IsDigitAt(chars, n) THEN 4 ELSE 0
      [] directive = "%m" ->
            IF IsDigitAt(chars, 1) /\ IsDigitAt(chars, 2) /\ TwoDigits(chars) \in 1..12
            THEN 2
            ELSE IF IsDigitAt(chars, 1) /\ DigitVal(chars[1]) >= 1 THEN 1 ELSE 0
      [] directive = "%d" ->
            IF IsDigitAt(chars, 1) /\ IsDigitAt(chars, 2) /\ TwoDigits(chars) \in 1..31
            THEN 2
            ELSE IF IsDigitAt(chars, 1) /\ DigitVal(chars[1]) >= 1 THEN 1
            ELSE IF Len(chars) >= 2 /\ chars[1] = " " /\ IsDigitAt(chars, 2)
                    /\ DigitVal(chars[2]) >= 1
            THEN 2 ELSE 0
      [] OTHER -> IF chars # <<>> /\ chars[1] = directive THEN 1 ELSE 0

\* the number a directive read
RECURSIVE NumberOf(_)
NumberOf(chars) ==
    IF chars = <<>> THEN 0
    ELSE IF ~IsDigit(chars[Len(chars)]) THEN NumberOf(SubSeq(chars, 1, Len(chars) - 1))
    ELSE 10 * NumberOf(SubSeq(chars, 1, Len(chars) - 1)) + DigitVal(chars[Len(chars)])

\* the format matched against the front of the characters: the fields found
\* (year 1900, month 1, day 1 when the format has no directive for them) and
\* the characters left over
RECURSIVE MatchFormat(_, _, _)
MatchFormat(format, chars, found) ==
    IF format = <<>>
    THEN [matched |-> TRUE, found |-> found, rest |-> chars]
    ELSE LET n == DirectiveTakes(Head(format), chars)
             taken == SubSeq(chars, 1, n)
             left == SubSeq(chars, n + 1, Len(chars))
         IN  IF n = 0
             THEN [matched |-> FALSE, found |-> found, rest |-> chars]
             ELSE MatchFormat(Tail(format), left,
                     CASE Head(format) = "%Y" -> [found EXCEPT !.year = NumberOf(taken)]
                       [] Head(format) = "%m" -> [found EXCEPT !.month = NumberOf(taken)]
                       [] Head(format) = "%d" -> [found EXCEPT !.day = NumberOf(taken)]
                       [] OTHER -> found)

IsLeap(year) == year % 4 = 0 /\ (year % 100 # 0 \/ year % 400 = 0)
DaysInMonth(year, month) ==
    IF month = 2 THEN (IF IsLeap(year) THEN 29 ELSE 28)
    ELSE IF month \in {4, 6, 9, 11} THEN 30 ELSE 31

\* datetime.datetime.strptime(datestr, dateformat): "ok", a "ValueError" (no
\* match, characters left over, no such date) or a "TypeError" (not a str)
strptime(datestr, dateformat) ==
    IF datestr.type # "str"
    THEN "TypeError"
    ELSE LET m == MatchFormat(dateformat, datestr.chars,
                              [year |-> 1900, month |-> 1, day |-> 1])
         IN  IF ~m.matched \/ m.rest # <<>> THEN "ValueError"
             ELSE IF m.found.year < 1 THEN "ValueError"
             ELSE IF m.found.day > DaysInMonth(m.found.year, m.found.month)
             THEN "ValueError"
             ELSE "ok"

\* date_is_valid: the boolean returned, or the exception that leaves it
date_is_valid(datestr, dateformat, propertyallowsnull) ==
    IF datestr = PyNone \/ datestr = PyStr(<<>>)
    THEN [kind |-> "return", val |-> propertyallowsnull]
    ELSE LET parsed == strptime(datestr, dateformat)
         IN  CASE parsed = "ok" -> [kind |-> "return", val |-> TRUE]
               [] parsed = "ValueError" -> [kind |-> "return", val |-> FALSE]
               [] OTHER -> [kind |-> "raise", val |-> FALSE]

\* ------------------------------------------------------------------ Stay table
NoStay == [id |-> 0]
RetFalse == [kind |-> "false", val |-> NoStay]
RetRaise == [kind |-> "raise", val |-> NoStay]
RetStay(s) == [kind |-> "stay", val |-> s]

\* (a filter that looks for the reservation id in the guest id column)
StayFilterByGuestId(S, rid, hotel) ==
    {s \in S : s.pms_guest_id = rid /\ s.hotel = hotel.id}

\* Stay.objects.filter(pms_reservation_id=..., hotel=...)
StayFilter(S, rid, hotel) ==
    {s \in S : s.pms_reservation_id = rid /\ s.hotel = hotel.id}

\* Stay(...), with the primary key the database gives it on save()
NewStay(S, rid, hotel, guest, pmsg, status, checkin, checkout) ==
    [id |-> Cardinality(S) + 1, pms_reservation_id |-> rid, hotel |-> hotel.id,
     guest |-> guest.id, pms_guest_id |-> pmsg, status |-> status,
     checkin |-> checkin, checkout |-> checkout]

\* (an update branch that leaves the checkout date alone)
UpdatedStayNoCheckout(old, status, checkin, checkout) ==
    [old EXCEPT !.status = status, !.checkin = checkin]

\* the field assignments of the update branch
UpdatedStay(old, status, checkin, checkout) ==
    [old EXCEPT !.status = IF old.status # status THEN status ELSE old.status,
                !.checkin = IF old.checkin # checkin THEN checkin ELSE old.checkin,
                !.checkout = IF old.checkout # checkout THEN checkout ELSE old.checkout]

\* (a save that always inserts a new row)
SaveInsert(S, row) == S \cup {[row EXCEPT !.id = Cardinality(S) + 1]}

\* save(): one row written, replacing the row with the same primary key
Save(S, row) == {s \in S : s.id # row.id} \cup {row}

\* (a save per changed field)
UpdateSavesPerField(old, new) == Cardinality({f \in DOMAIN old : old[f] # new[f]})

\* number of save() calls of the update branch
UpdateSaves(old, new) == 1

\* create_or_update_stay: the new Stay table, the value returned (a Stay, False,
\* or an exception) and the number of save() calls made. saveOk = FALSE is a
\* save() that raises.
create_or_update_stay(S, rid, status_str, checkin, checkout, pmsg, guest, hotel, saveOk) ==
    IF status_str \notin DOMAIN RESERVATION_STATUS_MAPPING
    THEN [stays |-> S, ret |-> RetFalse, saves |-> 0]
    ELSE LET status == RESERVATION_STATUS_MAPPING[status_str]
             found == StayFilter(S, rid, hotel)
         IN  IF found = {}
             THEN LET new_stay == NewStay(S, rid, hotel, guest, pmsg, status, checkin, checkout)
                  IN  IF saveOk
                      THEN [stays |-> Save(S, new_stay), ret |-> RetStay(new_stay), saves |-> 1]
                      ELSE [stays |-> S, ret |-> RetRaise, saves |-> 1]
             ELSE IF Cardinality(found) # 1
                  THEN [stays |-> S, ret |-> RetRaise, saves |-> 0]
                  ELSE LET old == CHOOSE s \in found : TRUE
                           old_stay == UpdatedStay(old, status, checkin, checkout)
                       IN  IF saveOk
                           THEN [stays |-> Save(S, old_stay), ret |-> RetStay(old_stay),
                                 saves |-> UpdateSaves(old, old_stay)]
                           ELSE [stays |-> S, ret |-> RetRaise,
                                 saves |-> UpdateSaves(old, old_stay)]

\* ------------------------------------------------------------------ Guest table
NoGuest == [id |-> 0, phone |-> None, name |-> None]

\* the empty name becomes None
NormalizeName(name) == IF name = "" THEN None ELSE name

\* (a plain create)
CreateGuest(G, phone, name) ==
    LET new == [id |-> Cardinality(G) + 1, phone |-> phone, name |-> name]
    IN  [guests |-> G \cup {new}, guest |-> new, created |-> TRUE, ok |-> TRUE]

\* (a lookup by phone and name)
GetOrCreateGuestByPhoneAndName(G, phone, name) ==
    LET found == {g \in G : g.phone = phone /\ g.name = name}
        new == [id |-> Cardinality(G) + 1, phone |-> phone, name |-> name]
    IN  IF found = {}
        THEN [guests |-> G \cup {new}, guest |-> new, created |-> TRUE, ok |-> TRUE]
        ELSE [guests |-> G, guest |-> CHOOSE g \in found : TRUE,
              created |-> FALSE, ok |-> TRUE]

\* Guest.objects.get_or_create(phone=..., defaults={"name": ...})
GetOrCreateGuest(G, phone, name) ==
    LET found == {g \in G : g.phone = phone}
        new == [id |-> Cardinality(G) + 1, phone |-> phone, name |-> name]
    IN  IF found = {}
        THEN [guests |-> G \cup {new}, guest |-> new, created |-> TRUE, ok |-> TRUE]
        ELSE IF Cardinality(found) = 1
             THEN [guests |-> G, guest |-> CHOOSE g \in found : TRUE,
                   created |-> FALSE, ok |-> TRUE]
             ELSE [guests |-> G, guest |-> NoGuest, created |-> FALSE, ok |-> FALSE]

\* what the name comparison after get_or_create reports: nothing (`pass`)
NameMismatchReport(guest, name) == IF guest.name # name THEN <<>> ELSE <<>>

\* get_guest_from_reservation_guest_id: the new Guest table, the Guest returned
\* (or an exception) and the diagnostics that leave the function
get_guest_from_reservation_guest_id(G, up, gid) ==
    LET call == api_call_with_retries(up.guest[gid])
    IN  IF ~call.ok
        THEN [guests |-> G, kind |-> "raise", guest |-> NoGuest, created |-> FALSE,
              report |-> <<>>]
        ELSE LET name == NormalizeName(call.val.Name)
                 got == GetOrCreateGuest(G, call.val.Phone, name)
             IN  IF ~got.ok
                 THEN [guests |-> G, kind |-> "raise", guest |-> NoGuest,
                       created |-> FALSE, report |-> <<>>]
                 ELSE [guests |-> got.guests, kind |-> "guest", guest |-> got.guest,
                       created |-> got.created,
                       report |-> NameMismatchReport(got.guest, name)]

\* ------------------------------------------------------------------ webhook handler
EventNames == {"ReservationUpdated", "ReservationCancelled"}
Events ==
    {[Name |-> "ReservationUpdated", ReservationId |-> r] : r \in RIds}
    \cup {[Name |-> "ReservationCancelled", ReservationId |-> "R1"]}
EventSeqs == UNION {[1..n -> Events] : n \in 0..MaxEvents}

\* what clean_webhook_payload hands to handle_webhook
InvalidPayload == [payload_valid |-> FALSE, HotelId |-> None, Events |-> <<>>]
WebhookData ==
    {InvalidPayload}
    \cup {[payload_valid |-> TRUE, HotelId |-> h, Events |-> es] :
             h \in PmsHotelIds, es \in EventSeqs}

\* A payload as it arrives: its JSON syntax ("malformed", an "array", an
\* "object"), the envelope fields that are there with the type the schema asks
\* for, and the events; an event is "ok" (a Name and a Value of strings),
\* has "no_name", or a "value_not_dict". An "ok" event whose Value has no
\* ReservationId carries None there.
EnvelopeFields == {"HotelId", "IntegrationId", "Events"}
RawEvent(shape, rid) == [shape |-> shape, Name |-> "ReservationUpdated", ReservationId |-> rid]
RawPayload(syntax, fields, hotel_id, events) ==
    [syntax |-> syntax, fields |-> fields, HotelId |-> hotel_id, Events |-> events]
RawPayloads ==
    {RawPayload("malformed", {}, None, <<>>),
     RawPayload("array", {}, None, <<>>),
     RawPayload("object", EnvelopeFields \ {"HotelId"}, None, <<RawEvent("ok", "R1")>>),
     RawPayload("object", EnvelopeFields \ {"IntegrationId"}, "H1", <<RawEvent("ok", "R1")>>),
     RawPayload("object", EnvelopeFields \ {"Events"}, "H1", <<>>),
     RawPayload("object", EnvelopeFields, "H1", <<RawEvent("no_name", "R1")>>),
     RawPayload("object", EnvelopeFields, "H1",
                <<RawEvent("ok", "R2"), RawEvent("value_not_dict", "R1")>>),
     RawPayload("object", EnvelopeFields, "H1", <<>>),
     RawPayload("object", EnvelopeFields, "H1", <<RawEvent("ok", "R1")>>),
     RawPayload("object", EnvelopeFields, "H1", <<RawEvent("ok", None)>>)}

\* json.loads(payload) of clean_webhook_payload: does it return
PayloadParses(payload) == payload.syntax # "malformed"

\* (a validation that asks for no IntegrationId)
PayloadValidatesLoosely(p) ==
    /\ p.syntax = "object"
    /\ {"HotelId", "Events"} \subseteq p.fields
    /\ \A k \in DOMAIN p.Events : p.Events[k].shape = "ok"

\* Payload(**p): does it validate (a TypeError for what is not an
\* object, a ValidationError for a missing or ill-typed field or event)
PayloadValidates(p) ==
    /\ p.syntax = "object"
    /\ EnvelopeFields \subseteq p.fields
    /\ \A k \in DOMAIN p.Events : p.Events[k].shape = "ok"

\* clean_webhook_payload: the dict handed to handle_webhook
clean_webhook_payload(payload) ==
    IF ~PayloadParses(payload)
    THEN InvalidPayload
    ELSE IF ~PayloadValidates(payload)
    THEN InvalidPayload
    ELSE [payload_valid |-> TRUE, HotelId |-> payload.HotelId,
          Events |-> [k \in DOMAIN payload.Events |->
                         [Name |-> payload.Events[k].Name,
                          ReservationId |-> payload.Events[k].ReservationId]]]

\* Hotel.objects.get(pms_hotel_id=...): on DoesNotExist the name `hotel` keeps
\* what it held (nothing, on the first event)
HotelLookup(bound, pms_hotel_id) ==
    LET rows == {h \in HotelTable : h.pms_hotel_id = pms_hotel_id}
    IN  IF rows = {} THEN bound ELSE CHOOSE h \in rows : TRUE

\* (a create-or-update that never calls save())
webhook_upsert_unsaved(S, rid, status, checkin, checkout, pmsg, guest, hotel, saveOk) ==
    [stays |-> S, saves |-> 0,
     end |-> IF StayFilter(S, rid, hotel) = {} THEN "created" ELSE "updated"]

\* the create-or-update of the loop body: the new Stay table, the save() calls
\* made, and how the body ends ("created", "updated", "update_failed": the
\* exception of the update branch is printed and dropped; "raise": the
\* exception of the create branch leaves handle_webhook)
webhook_upsert_stay(S, rid, status, checkin, checkout, pmsg, guest, hotel, saveOk) ==
    LET found == StayFilter(S, rid, hotel)
    IN  IF found = {}
        THEN LET new_stay == NewStay(S, rid, hotel, guest, pmsg, status, checkin, checkout)
             IN  IF saveOk
                 THEN [stays |-> Save(S, new_stay), saves |-> 1, end |-> "created"]
                 ELSE [stays |-> S, saves |-> 1, end |-> "raise"]
        ELSE IF Cardinality(found) # 1
             THEN [stays |-> S, saves |-> 0, end |-> "update_failed"]
             ELSE LET old_stay == UpdatedStay(CHOOSE s \in found : TRUE, status, checkin, checkout)
                  IN  IF saveOk
                      THEN [stays |-> Save(S, old_stay), saves |-> 1, end |-> "updated"]
                      ELSE [stays |-> S, saves |-> 1, end |-> "update_failed"]

\* (a test that takes every event for a reservation update)
EventRecognizedAlways(event_name) == event_name \in EventNames

\* if event_name == "ReservationUpdated"
EventRecognized(event_name) == event_name = "ReservationUpdated"

\* the end of one event of the loop, noted in the trace and in the log: what
\* the event did between `before` and `after` (bookkeeping of the model)
Logged(before, after, end) ==
    [after EXCEPT
        !.trace = Append(@, end),
        !.log = Append(@, [end |-> end,
                           api |-> SubSeq(after.api, Len(before.api) + 1, Len(after.api)),
                           creates |-> after.creates - before.creates,
                           saves |-> after.saves - before.saves,
                           guests_changed |-> after.guests # before.guests,
                           stays_changed |-> after.stays # before.stays])]

\* the for loop of handle_webhook over the events left. st carries the tables,
\* the local `hotel`, the upstream calls made (api), the save() calls on Stay
\* (saves), the Guests created (creates) and how each event ended (trace, log).
RECURSIVE handle_events(_, _, _, _, _)
handle_events(events, webhook_hotel_id, st, up, saveOk) ==
    IF events = <<>>
    THEN [st EXCEPT !.ret = "True"]
    ELSE
    LET event == Head(events)
        reservation_id == event.ReservationId
    IN  IF ~EventRecognized(event.Name)
        THEN handle_events(Tail(events), webhook_hotel_id,
                           Logged(st, st, "ignored"), up, saveOk)
        ELSE IF reservation_id = None
        THEN [Logged(st, st, "key_error") EXCEPT !.ret = "raise"]
        ELSE
        LET rcall == api_call_with_retries(up.res[reservation_id])
            reservation_details == rcall.val
            st1 == [st EXCEPT !.api = Append(@, <<"get_reservation_details", reservation_id>>)]
        IN  IF ~rcall.ok
            THEN [Logged(st, st1, "reservation_fetch_failed") EXCEPT !.ret = "False"]
            ELSE IF reservation_details.HotelId # webhook_hotel_id
            THEN [Logged(st, st1, "hotel_mismatch") EXCEPT !.ret = "False"]
            ELSE
            LET reservation_guest_id == reservation_details.GuestId
                hotel == HotelLookup(st.hotel, reservation_details.HotelId)
                gcall == api_call_with_retries(up.guest[reservation_guest_id])
                st2 == [st1 EXCEPT !.hotel = hotel,
                                   !.api = Append(@, <<"get_guest_details", reservation_guest_id>>)]
            IN  IF ~gcall.ok
                THEN [Logged(st, st2, "guest_fetch_failed") EXCEPT !.ret = "False"]
                ELSE
                LET name == NormalizeName(gcall.val.Name)
                    got == GetOrCreateGuest(st.guests, gcall.val.Phone, name)
                    st3 == [st2 EXCEPT !.guests = got.guests,
                                       !.creates = @ + (IF got.created THEN 1 ELSE 0)]
                IN  IF ~got.ok
                    THEN [Logged(st, st2, "guest_failed") EXCEPT !.ret = "False"]
                    ELSE IF reservation_details.Status \notin DOMAIN RESERVATION_STATUS_MAPPING
                    THEN [Logged(st, st3, "unknown_status") EXCEPT !.ret = "False"]
                    ELSE IF hotel = Unbound
                    THEN [Logged(st, st3, "hotel_unbound") EXCEPT !.ret = "raise"]
                    ELSE
                    LET up_ == webhook_upsert_stay(st.stays, reservation_id,
                                   RESERVATION_STATUS_MAPPING[reservation_details.Status],
                                   reservation_details.CheckInDate,
                                   reservation_details.CheckOutDate,
                                   reservation_guest_id, got.guest, hotel, saveOk)
                        st4 == Logged(st, [st3 EXCEPT !.stays = up_.stays,
                                                      !.saves = @ + up_.saves], up_.end)
                    IN  IF up_.end = "raise"
                        THEN [st4 EXCEPT !.ret = "raise"]
                        ELSE handle_events(Tail(events), webhook_hotel_id, st4, up, saveOk)

\* handle_webhook: True, False or an exception, with the tables it leaves
handle_webhook(G, S, webhook_data, up, saveOk) ==
    LET st0 == [guests |-> G, stays |-> S, hotel |-> Unbound, ret |-> "running",
                api |-> <<>>, saves |-> 0, creates |-> 0, trace |-> <<>>,
                log |-> <<>>]
    IN  IF ~webhook_data.payload_valid
        THEN [st0 EXCEPT !.ret = "False"]
        ELSE handle_events(webhook_data.Events, webhook_data.HotelId, st0, up, saveOk)

\* update_tomorrows_stays: `return True` (the method is not implemented); the
\* tables it leaves, the value returned and the upstream calls made
update_tomorrows_stays(G, S, up) ==
    [guests |-> G, stays |-> S, ret |-> "True", api |-> <<>>]

\* stay_has_breakfast: `return None` (the method is not implemented)
stay_has_breakfast(stay, up) == [ret |-> None, api |-> <<>>]

\* ------------------------------------------------------------------ upstream API
\* the day the daily job asks for
TargetDate == "2024-05-01"
\* what the reservation details say in BreakfastIncluded: a boolean, nothing,
\* or something that is not a boolean
BreakfastValues == {"True", "False", "missing", "not_bool"}
ResDetails ==
    [HotelId : PmsHotelIds, GuestId : GIds, Status : StatusStrs,
     CheckInDate : CheckIns, CheckOutDate : CheckOuts, fails : {0, RetryLimit}]
GuestDetails == [Name : Names, Phone : Phones, fails : {0, RetryLimit}]

UpstreamInit ==
    [res |-> [r \in RIds |->
                 [HotelId |-> "H1", GuestId |-> IF r = "R1" THEN "G1" ELSE "G2",
                  Status |-> IF r = "R1" THEN "in_house" ELSE "booked",
                  CheckInDate |-> "2024-05-01", CheckOutDate |-> "2024-05-03",
                  fails |-> 0]],
     guest |-> [g \in GIds |->
                 [Name |-> IF g = "G1" THEN "Ann" ELSE "Bob",
                  Phone |-> "+15551234567", fails |-> 0]]]

\* ------------------------------------------------------------------ operations
RetryIdle ==
    /\ pc = "idle" /\ apiname = None /\ i = 0 /\ calls = 0 /\ failed = 0
    /\ outcome = NoOutcome /\ payload_dict = None

\* no call of create_or_update_stay is under way
Workers == {"w1", "w2"}
IdleWorker ==
    [pc |-> "idle", status_str |-> None, checkout |-> None, branch |-> "none",
     old_stay |-> NoStay, ret |-> RetFalse, error |-> None]
RaceIdle ==
    /\ workers = [w \in Workers |-> IdleWorker]
    /\ lock = None
    /\ env = [locking |-> FALSE, unique |-> FALSE]

Init ==
    /\ guests = {}
    /\ stays = {}
    /\ upstream = UpstreamInit
    /\ last = [op |-> "none"]
    /\ nops = 0
    /\ RetryIdle
    /\ RaceIdle

\* whether the operation before this one was the same reconciliation, or the
\* same webhook delivery (bookkeeping of the model, not program state)
SameCall(prev, rid, hotel_id, status_str, checkin, checkout, pmsg, guest_id) ==
    /\ prev.op = "reconcile"
    /\ prev.rid = rid /\ prev.hotel = hotel_id /\ prev.status_str = status_str
    /\ prev.checkin = checkin /\ prev.checkout = checkout
    /\ prev.pms_guest_id = pmsg /\ prev.guest = guest_id

SameDelivery(prev, webhook_data) ==
    /\ prev.op = "webhook"
    /\ prev.data = webhook_data

\* a webhook delivery
Webhook ==
    /\ nops < MaxOps
    /\ \E webhook_data \in WebhookData, saveOk \in BOOLEAN :
          \E r \in {handle_webhook(guests, stays, webhook_data, upstream, saveOk)} :
              /\ guests' = r.guests
              /\ stays' = r.stays
              /\ last' = [op |-> "webhook", data |-> webhook_data, saveOk |-> saveOk,
                          ret |-> r.ret, api |-> r.api, saves |-> r.saves,
                          creates |-> r.creates, trace |-> r.trace, log |-> r.log,
                          redelivery |-> SameDelivery(last, webhook_data)]
    /\ nops' = nops + 1
    /\ UNCHANGED <<upstream, retryvars, racevars>>

\* a payload arrives: clean_webhook_payload, then handle_webhook
Delivery ==
    /\ nops < MaxOps
    /\ \E payload \in RawPayloads :
          \E webhook_data \in {clean_webhook_payload(payload)} :
          \E r \in {handle_webhook(guests, stays, webhook_data, upstream, TRUE)} :
              /\ guests' = r.guests
              /\ stays' = r.stays
              /\ last' = [op |-> "delivery", payload |-> payload, data |-> webhook_data,
                          ret |-> r.ret, api |-> r.api, saves |-> r.saves,
                          creates |-> r.creates, trace |-> r.trace, log |-> r.log]
    /\ nops' = nops + 1
    /\ UNCHANGED <<upstream, retryvars, racevars>>

\* the daily job
UpdateTomorrowsStays ==
    /\ nops < MaxOps
    /\ \E r \in {update_tomorrows_stays(guests, stays, upstream)} :
          /\ guests' = r.guests
          /\ stays' = r.stays
          /\ last' = [op |-> "update_tomorrows_stays", ret |-> r.ret, api |-> r.api]
    /\ nops' = nops + 1
    /\ UNCHANGED <<upstream, retryvars, racevars>>

\* the breakfast question for a Stay of the table, at a moment when the
\* reservation details upstream say `breakfast` in BreakfastIncluded
StayHasBreakfast ==
    /\ nops < MaxOps
    /\ \E stay \in stays, breakfast \in BreakfastValues :
          \E r \in {stay_has_breakfast(stay, upstream)} :
              last' = [op |-> "stay_has_breakfast", rid |-> stay.pms_reservation_id,
                       breakfast |-> breakfast, ret |-> r.ret, api |-> r.api]
    /\ nops' = nops + 1
    /\ UNCHANGED <<guests, stays, upstream, retryvars, racevars>>

\* a guest resolution
Resolve ==
    /\ nops < MaxOps
    /\ \E gid \in GIds :
          \E r \in {get_guest_from_reservation_guest_id(guests, upstream, gid)} :
              /\ guests' = r.guests
              /\ last' = [op |-> "resolve", gid |-> gid, kind |-> r.kind,
                          guest |-> r.guest, created |-> r.created, report |-> r.report,
                          name |-> NormalizeName(upstream.guest[gid].Name),
                          phone |-> upstream.guest[gid].Phone]
    /\ nops' = nops + 1
    /\ UNCHANGED <<stays, upstream, retryvars, racevars>>

\* a reconciliation of a reservation as the upstream API reports it, for a
\* hotel and a Guest of the tables
ReconcileUpstream ==
    /\ nops < MaxOps
    /\ \E rid \in RIds, hotel \in HotelTable, guest \in guests, saveOk \in BOOLEAN :
          \E d \in {upstream.res[rid]} :
          \E r \in {create_or_update_stay(stays, rid, d.Status, d.CheckInDate,
                                         d.CheckOutDate, d.GuestId, guest, hotel, saveOk)} :
              /\ stays' = r.stays
              /\ last' = [op |-> "reconcile", rid |-> rid, hotel |-> hotel.id,
                          status_str |-> d.Status, checkin |-> d.CheckInDate,
                          checkout |-> d.CheckOutDate, pms_guest_id |-> d.GuestId,
                          guest |-> guest.id, saveOk |-> saveOk,
                          ret |-> r.ret, saves |-> r.saves,
                          existed |-> StayFilter(stays, rid, hotel) # {},
                          repeat |-> SameCall(last, rid, hotel.id, d.Status, d.CheckInDate,
                                              d.CheckOutDate, d.GuestId, guest.id)]
    /\ nops' = nops + 1
    /\ UNCHANGED <<guests, upstream, retryvars, racevars>>

\* the upstream data of one reservation changes in one field
ReservationChanges ==
    /\ nops < MaxOps
    /\ \E rid \in RIds, d \in ResDetails :
          /\ \E f \in DOMAIN d :
                /\ d[f] # upstream.res[rid][f]
                /\ d = [upstream.res[rid] EXCEPT ![f] = d[f]]
          /\ upstream' = [upstream EXCEPT !.res[rid] = d]
    /\ last' = [op |-> "upstream"]
    /\ nops' = nops + 1
    /\ UNCHANGED <<guests, stays, retryvars, racevars>>

\* the upstream data of one guest changes in one field
GuestChanges ==
    /\ nops < MaxOps
    /\ \E gid \in GIds, d \in GuestDetails :
          /\ \E f \in DOMAIN d :
                /\ d[f] # upstream.guest[gid][f]
                /\ d = [upstream.guest[gid] EXCEPT ![f] = d[f]]
          /\ upstream' = [upstream EXCEPT !.guest[gid] = d]
    /\ last' = [op |-> "upstream"]
    /\ nops' = nops + 1
    /\ UNCHANGED <<guests, stays, retryvars, racevars>>

Next ==
    Webhook \/ Delivery \/ UpdateTomorrowsStays \/ StayHasBreakfast \/ Resolve \/ ReconcileUpstream \/ ReservationChanges \/ GuestChanges

Spec == Init /\ [][Next]_vars

\* ---- direct calls of create_or_update_stay
InitStay ==
    /\ guests = {[id |-> 1, phone |-> "+15551234567", name |-> "Ann"],
                 [id |-> 2, phone |-> "+15557654321", name |-> None]}
    /\ stays = {}
    /\ upstream = UpstreamInit
    /\ last = [op |-> "none"]
    /\ nops = 0
    /\ RetryIdle
    /\ RaceIdle

Reconcile ==
    /\ nops < MaxOps
    /\ \E rid \in {"R1"}, hotel \in HotelTable, status_str \in StatusStrs,
          checkin \in CheckIns, checkout \in CheckOuts, pmsg \in GIds, guest \in guests :
          \E r \in {create_or_update_stay(stays, rid, status_str, checkin, checkout,
                                         pmsg, guest, hotel, TRUE)} :
              /\ stays' = r.stays
              /\ last' = [op |-> "reconcile", rid |-> rid, hotel |-> hotel.id,
                          status_str |-> status_str, checkin |-> checkin,
                          checkout |-> checkout, pms_guest_id |-> pmsg,
                          guest |-> guest.id, saveOk |-> TRUE,
                          ret |-> r.ret, saves |-> r.saves,
                          existed |-> StayFilter(stays, rid, hotel) # {},
                          repeat |-> SameCall(last, rid, hotel.id, status_str, checkin,
                                              checkout, pmsg, guest.id)]
    /\ nops' = nops + 1
    /\ UNCHANGED <<guests, upstream, retryvars, racevars>>

\* a call whose save() raises
ReconcileSaveFails ==
    /\ nops < MaxOps
    /\ \E rid \in {"R1"}, hotel \in HotelTable, status_str \in {"in_house", "cancelled"},
          checkin \in {"2024-05-01"}, checkout \in {"2024-05-03"}, pmsg \in {"G1"},
          guest \in guests :
          \E r \in {create_or_update_stay(stays, rid, status_str, checkin, checkout,
                                         pmsg, guest, hotel, FALSE)} :
              /\ stays' = r.stays
              /\ last' = [op |-> "reconcile", rid |-> rid, hotel |-> hotel.id,
                          status_str |-> status_str, checkin |-> checkin,
                          checkout |-> checkout, pms_guest_id |-> pmsg,
                          guest |-> guest.id, saveOk |-> FALSE,
                          ret |-> r.ret, saves |-> r.saves,
                          existed |-> StayFilter(stays, rid, hotel) # {},
                          repeat |-> SameCall(last, rid, hotel.id, status_str, checkin,
                                              checkout, pmsg, guest.id)]
    /\ nops' = nops + 1
    /\ UNCHANGED <<guests, upstream, retryvars, racevars>>

NextStay == Reconcile \/ ReconcileSaveFails

SpecStay == InitStay /\ [][NextStay]_vars

\* ---- api_call_with_retries, step by step
NextRetry == Call \/ Attempt \/ GiveUp

SpecRetry == Init /\ [][NextRetry]_vars

\* ---- calls of date_is_valid
DateIsValid ==
    /\ nops < MaxOps
    /\ \E datestr \in DateValues, dateformat \in DateFormats, propertyallowsnull \in BOOLEAN :
          last' = [op |-> "date_is_valid", datestr |-> datestr, dateformat |-> dateformat,
                   propertyallowsnull |-> propertyallowsnull,
                   ret |-> date_is_valid(datestr, dateformat, propertyallowsnull)]
    /\ nops' = nops + 1
    /\ UNCHANGED <<guests, stays, upstream, retryvars, racevars>>

NextDate == DateIsValid

SpecDate == Init /\ [][NextDate]_vars

\* ---- concurrent calls of create_or_update_stay for one key, one database
\* operation per step. The callers either take a lock keyed on
\* (pms_reservation_id, hotel) around the call (env.locking) or do not; the
\* store either enforces the uniqueness of the key (env.unique) or does not.
RaceRid == "R1"
RaceHotel == CHOOSE h \in HotelTable : h.pms_hotel_id = "H1"
RaceGuest == [id |-> 1, phone |-> "+15551234567", name |-> "Ann"]
RaceStatusStrs == {"in_house", "cancelled", "confirmed"}
RaceCheckIn == "2024-05-01"

InitRace ==
    /\ guests = {RaceGuest}
    /\ stays = {}
    /\ upstream = UpstreamInit
    /\ last = [op |-> "none"]
    /\ nops = 0
    /\ RetryIdle
    /\ workers = [w \in Workers |-> IdleWorker]
    /\ lock = None
    /\ env \in [locking : BOOLEAN, unique : BOOLEAN]

\* a caller takes the lock on the key before its call
RaceAcquire ==
    /\ env.locking
    /\ lock = None
    /\ nops < MaxOps
    /\ \E w \in Workers :
          /\ workers[w].pc \in {"idle", "done"}
          /\ lock' = w
    /\ UNCHANGED <<workers, env, storevars, retryvars>>

\* the call starts: the status is mapped, or False is returned
RaceEnter ==
    /\ nops < MaxOps
    /\ \E w \in Workers, status_str \in RaceStatusStrs, checkout \in CheckOuts :
          /\ workers[w].pc \in {"idle", "done"}
          /\ env.locking => lock = w
          /\ workers' = [workers EXCEPT ![w] =
                IF status_str \in DOMAIN RESERVATION_STATUS_MAPPING
                THEN [IdleWorker EXCEPT !.pc = "check", !.status_str = status_str,
                                        !.checkout = checkout]
                ELSE [IdleWorker EXCEPT !.pc = "done", !.status_str = status_str,
                                        !.checkout = checkout, !.ret = RetFalse]]
    /\ nops' = nops + 1
    /\ UNCHANGED <<guests, stays, upstream, last, lock, env, retryvars>>

\* stay_exists = Stay.objects.filter(...).exists()
RaceCheck ==
    /\ \E w \in Workers :
          /\ workers[w].pc = "check"
          /\ workers' = [workers EXCEPT ![w] =
                IF StayFilter(stays, RaceRid, RaceHotel) = {}
                THEN [@ EXCEPT !.pc = "create", !.branch = "create"]
                ELSE [@ EXCEPT !.pc = "get", !.branch = "update"]]
    /\ UNCHANGED <<lock, env, storevars, retryvars>>

\* new_stay.save(): a row is inserted, or the store refuses the second row of
\* the key and the call raises
RaceCreate ==
    /\ \E w \in Workers :
          /\ workers[w].pc = "create"
          /\ \E new_stay \in {NewStay(stays, RaceRid, RaceHotel, RaceGuest, "G1",
                                     RESERVATION_STATUS_MAPPING[workers[w].status_str],
                                     RaceCheckIn, workers[w].checkout)} :
                IF env.unique /\ StayFilter(stays, RaceRid, RaceHotel) # {}
                THEN /\ workers' = [workers EXCEPT ![w].pc = "done", ![w].ret = RetRaise,
                                                   ![w].error = "IntegrityError"]
                     /\ stays' = stays
                ELSE /\ workers' = [workers EXCEPT ![w].pc = "done",
                                                   ![w].ret = RetStay(new_stay)]
                     /\ stays' = Save(stays, new_stay)
    /\ UNCHANGED <<guests, upstream, last, nops, lock, env, retryvars>>

\* old_stay = Stay.objects.get(...): the row, or an exception when there is
\* not exactly one
RaceGet ==
    /\ \E w \in Workers :
          /\ workers[w].pc = "get"
          /\ \E found \in {StayFilter(stays, RaceRid, RaceHotel)} :
                IF Cardinality(found) = 1
                THEN workers' = [workers EXCEPT ![w].pc = "update",
                                                ![w].old_stay = CHOOSE s \in found : TRUE]
                ELSE workers' = [workers EXCEPT ![w].pc = "done", ![w].ret = RetRaise,
                                                ![w].error = "MultipleObjectsReturned"]
    /\ UNCHANGED <<lock, env, storevars, retryvars>>

\* the field assignments and old_stay.save()
RaceUpdate ==
    /\ \E w \in Workers :
          /\ workers[w].pc = "update"
          /\ \E old_stay \in {UpdatedStay(workers[w].old_stay,
                                         RESERVATION_STATUS_MAPPING[workers[w].status_str],
                                         RaceCheckIn, workers[w].checkout)} :
                /\ stays' = Save(stays, old_stay)
                /\ workers' = [workers EXCEPT ![w].pc = "done", ![w].old_stay = old_stay,
                                              ![w].ret = RetStay(old_stay)]
    /\ UNCHANGED <<guests, upstream, last, nops, lock, env, retryvars>>

\* the caller gives the lock back after its call
RaceRelease ==
    /\ \E w \in Workers :
          /\ lock = w
          /\ workers[w].pc = "done"
          /\ lock' = None
    /\ UNCHANGED <<workers, env, storevars, retryvars>>

NextRace ==
    RaceAcquire \/ RaceEnter \/ RaceCheck \/ RaceCreate \/ RaceGet \/ RaceUpdate
    \/ RaceRelease

SpecRace == InitRace /\ [][NextRace]_vars

\* ================================================================== claims

\* ------------------------------------------------------------------ C1
\* C1: api_call_with_retries invokes the wrapped operation exactly min(k+1, 20)
\* times, k being the number of leading failed attempts (APIError, any other
\* exception, undecodable text). When it has returned, fewer than 20 attempts
\* failed, the invocations are the failures plus one, and the value returned is
\* the parsed text of that last invocation; when it has raised, exactly 20
\* invocations were made, all failed, and no value was returned; while it runs,
\* every invocation so far has failed. Its callers' view (success iff fewer
\* than 20 leading failures) agrees with the loop.
C1_RetryBound ==
    /\ pc = "loop" => calls = failed /\ failed <= 20
    /\ pc = "returned" =>
          /\ failed < 20
          /\ calls = failed + 1
          /\ outcome.kind = "payload"
          /\ json_loads(outcome.text).ok
          /\ payload_dict = json_loads(outcome.text).val
    /\ pc = "raised" => failed = 20 /\ calls = 20 /\ payload_dict = None
    /\ pc \in {"returned", "raised"} =>
          (api_call_with_retries([fails |-> failed]).ok <=> pc = "returned")

\* five failures, then a success: six invocations
C1_Witness == pc = "returned" /\ failed = 5 /\ calls = 6

\* ------------------------------------------------------------------ C2
\* The six vendor strings and their internal states, as documented.
DocumentedMapping ==
    [in_house |-> "INSTAY", checked_out |-> "AFTER", cancelled |-> "CANCEL",
     no_show |-> "UNKNOWN", not_confirmed |-> "BEFORE", booked |-> "BEFORE"]

\* this step is a reconciliation with the input of the reconciliation before
\* it, which did not raise
TwiceInARow ==
    /\ last.op = "reconcile"
    /\ last.ret.kind # "raise"
    /\ last'.op = "reconcile"
    /\ last'.repeat

\* C2 as stated: reconciling the same key twice in a row with identical input,
\* the second call makes no save and returns a Stay equal to the first's.
C2_NoSecondWrite ==
    [][TwiceInARow => (last'.saves = 0 /\ last'.ret = last.ret)]_vars

\* C2 amended: the second call leaves the Stay table exactly as it was; it
\* makes one save (of unchanged values) when the status is known and none when
\* it is not; unless that save raises, it returns what the first call returned.
C2_SecondCallChangesNothing ==
    [][TwiceInARow =>
         /\ stays' = stays
         /\ last'.saves = (IF last.ret.kind = "stay" THEN 1 ELSE 0)
         /\ last'.ret.kind # "raise" => last'.ret = last.ret]_vars

C2_Witness ==
    /\ last.op = "reconcile" /\ last.repeat
    /\ last.ret.kind = "stay" /\ last.saves = 1
    /\ last.ret.val \in stays

\* ------------------------------------------------------------------ C4
\* C4: for a vendor status string outside the six documented ones,
\* create_or_update_stay returns False, makes no save and leaves the Stay table
\* as it was, whether or not a Stay exists for the key.
C4_UnknownStatusNoWrite ==
    [][(last'.op = "reconcile" /\ last'.status_str \notin DOMAIN DocumentedMapping) =>
         /\ last'.ret = RetFalse
         /\ last'.saves = 0
         /\ stays' = stays]_vars

C4_Witness ==
    /\ last.op = "reconcile"
    /\ last.status_str \notin DOMAIN DocumentedMapping
    /\ last.ret = RetFalse
    /\ \E s \in stays : s.pms_reservation_id = last.rid /\ s.hotel = last.hotel

\* ------------------------------------------------------------------ C5
\* C5: the status mapper is exactly the documented table of six strings; a Stay
\* created or updated by a reconciliation with one of them is stored, and
\* returned, with the documented status; every stored status is one of BEFORE,
\* INSTAY, AFTER, CANCEL, UNKNOWN.
C5_StatusMapping ==
    /\ RESERVATION_STATUS_MAPPING = DocumentedMapping
    /\ \A s \in stays : s.status \in {"BEFORE", "INSTAY", "AFTER", "CANCEL", "UNKNOWN"}
    /\ (/\ last.op = "reconcile"
        /\ last.status_str \in DOMAIN DocumentedMapping
        /\ last.saveOk) =>
          /\ last.ret.kind = "stay"
          /\ last.ret.val \in stays
          /\ last.ret.val.pms_reservation_id = last.rid
          /\ last.ret.val.hotel = last.hotel
          /\ last.ret.val.status = DocumentedMapping[last.status_str]

C5_Witness ==
    /\ last.op = "reconcile" /\ last.existed
    /\ last.status_str = "no_show"
    /\ \E s \in stays : s.status = "UNKNOWN"

\* ------------------------------------------------------------------ C8
\* C8: a call of create_or_update_stay that passes the status mapping makes
\* exactly one save, on the create branch and on the update branch; no call
\* makes two or more.
C8_OneSavePerCall ==
    last.op = "reconcile" =>
        /\ last.saves <= 1
        /\ last.status_str \in DOMAIN DocumentedMapping => last.saves = 1

C8_Witness ==
    /\ last.op = "reconcile" /\ last.existed /\ last.saves = 1
    /\ last.ret.kind = "stay"
    /\ Cardinality(stays) = 1

\* ------------------------------------------------------------------ C9
\* C9: when create_or_update_stay is called with a known status for a key that
\* has a Stay, and its save succeeds, the Stay table afterwards is the table
\* before with that one row's status, checkin and checkout replaced by the
\* mapped status and the incoming dates; the row's guest, pms_guest_id, hotel,
\* pms_reservation_id (and id) are as before, also when the incoming guest and
\* pms_guest_id differ.
C9_UpdateFrame ==
    [][(/\ last'.op = "reconcile"
        /\ last'.status_str \in DOMAIN DocumentedMapping
        /\ last'.saveOk) =>
         \A old \in stays :
            (old.pms_reservation_id = last'.rid /\ old.hotel = last'.hotel) =>
               stays' = (stays \ {old}) \cup
                        {[old EXCEPT !.status = DocumentedMapping[last'.status_str],
                                     !.checkin = last'.checkin,
                                     !.checkout = last'.checkout]}]_vars

\* a Stay becomes CANCEL, keeping the guest and pms_guest_id it had
\* although the call named others
C9_Witness ==
    /\ last.op = "reconcile" /\ last.existed /\ last.status_str = "cancelled"
    /\ \E s \in stays :
          /\ s.pms_reservation_id = last.rid /\ s.hotel = last.hotel
          /\ s.status = "CANCEL"
          /\ s.guest # last.guest
          /\ s.pms_guest_id # last.pms_guest_id

\* ------------------------------------------------------------------ C3
Range(seq) == {seq[n] : n \in DOMAIN seq}

\* this step delivers again the payload of the delivery before it, which
\* returned True with every save it made accepted (the upstream answers are
\* the same: no upstream change lies between the two steps)
Redelivered ==
    /\ last.op = "webhook"
    /\ last.ret = "True"
    /\ "update_failed" \notin Range(last.trace)
    /\ last'.op = "webhook"
    /\ last'.redelivery

\* C3: after handle_webhook has processed a valid payload successfully,
\* delivering the identical payload again, the upstream answers being the
\* same, leaves the Guest table and the Stay table exactly as they were.
C3_RedeliveryChangesNothing ==
    [][Redelivered => (guests' = guests /\ stays' = stays)]_vars

C3_Witness ==
    /\ last.op = "webhook" /\ last.redelivery
    /\ last.ret = "True"
    /\ last.trace = <<"updated">>
    /\ Cardinality(stays) = 1 /\ Cardinality(guests) = 1

\* ------------------------------------------------------------------ C6
\* C6: through guest resolutions and webhook deliveries the Guest table holds
\* at most one Guest per phone; no step removes or changes a Guest; a
\* resolution that completes for a phone already in the table returns the Guest
\* of that phone and creates none, also when the fetched name differs.
C6_GuestPerPhone ==
    [][/\ guests \subseteq guests'
       /\ \A g1 \in guests', g2 \in guests' : g1.phone = g2.phone => g1 = g2
       /\ (/\ last'.op = "resolve"
           /\ last'.kind = "guest"
           /\ \E g \in guests : g.phone = last'.phone) =>
             /\ guests' = guests
             /\ ~last'.created
             /\ last'.guest \in guests
             /\ last'.guest.phone = last'.phone]_vars

C6_Witness ==
    /\ last.op = "resolve" /\ last.kind = "guest" /\ ~last.created
    /\ last.guest \in guests
    /\ last.guest.name # last.name

\* ------------------------------------------------------------------ C7
\* the upstream answers, with the name of guest `gid` set to `name`
WithName(up, gid, name) ==
    [up EXCEPT !.guest[gid].Name = IF name = None THEN "" ELSE name]

\* C7: when a resolution finds a Guest whose stored name differs from the
\* fetched name, what leaves the resolution (the Guest returned, the
\* diagnostics) differs from what leaves a resolution of the same phone with
\* the stored name.
C7_MismatchSurfaced ==
    (/\ last.op = "resolve" /\ last.kind = "guest" /\ ~last.created
     /\ last.guest.name # last.name) =>
        \E m \in {get_guest_from_reservation_guest_id(
                      guests, WithName(upstream, last.gid, last.guest.name), last.gid)} :
           <<m.kind, m.guest, m.report>> # <<last.kind, last.guest, last.report>>

\* ------------------------------------------------------------------ C10
SameKey(s, t) == s.pms_reservation_id = t.pms_reservation_id /\ s.hotel = t.hotel

\* C10: through reconciliations and webhook deliveries, run one after the
\* other, the Stay table holds at most one Stay per (pms_reservation_id,
\* hotel); a step adds a Stay only for a key that had none, and every Stay
\* there was is still there under its key (updated in place).
C10_OneStayPerKey ==
    [][/\ \A s \in stays', t \in stays' : SameKey(s, t) => s = t
       /\ \A s \in stays : \E t \in stays' : t.id = s.id /\ SameKey(s, t)
       /\ \A t \in stays' :
             (\A s \in stays : s.id # t.id) => (\A s \in stays : ~SameKey(s, t))]_vars

C10_Witness ==
    /\ last.op = "webhook"
    /\ "updated" \in Range(last.trace)
    /\ Cardinality(stays) = 2

\* ------------------------------------------------------------------ C11
\* the payload is malformed JSON, or is not an object with a HotelId, an
\* IntegrationId and a list Events of {Name, Value}
ViolatesEnvelope(payload) ==
    \/ payload.syntax = "malformed"
    \/ payload.syntax # "object"
    \/ \E f \in {"HotelId", "IntegrationId", "Events"} : f \notin payload.fields
    \/ \E k \in DOMAIN payload.Events :
          payload.Events[k].shape \in {"no_name", "value_not_dict"}

\* C11: when the payload delivered is malformed JSON or violates the envelope
\* schema, clean_webhook_payload marks it invalid and handle_webhook returns
\* False having made no upstream call, handled no event, and written no Guest
\* and no Stay.
C11_InvalidPayloadRejected ==
    [][(last'.op = "delivery" /\ ViolatesEnvelope(last'.payload)) =>
         /\ ~last'.data.payload_valid
         /\ last'.ret = "False"
         /\ last'.api = <<>>
         /\ last'.log = <<>>
         /\ last'.creates = 0 /\ last'.saves = 0
         /\ guests' = guests /\ stays' = stays]_vars

\* an object without IntegrationId, naming a reservation that has a Stay
C11_Witness ==
    /\ last.op = "delivery"
    /\ last.payload.syntax = "object"
    /\ "IntegrationId" \notin last.payload.fields
    /\ last.ret = "False"
    /\ \E s \in stays : s.pms_reservation_id = last.payload.Events[1].ReservationId

\* ------------------------------------------------------------------ C12
\* C12 as stated: when an event of a valid payload has a Name other than
\* ReservationUpdated, handle_webhook does not return True and handles no
\* event after that one.
C12_UnrecognizedEventAborts ==
    (last.op = "webhook" /\ last.data.payload_valid) =>
        \A k \in DOMAIN last.data.Events :
            last.data.Events[k].Name # "ReservationUpdated" =>
                /\ last.ret # "True"
                /\ Len(last.log) <= k

\* C12 amended: an event with a Name other than ReservationUpdated is skipped:
\* handle_webhook makes no upstream call and no write for it and goes on with
\* the next event; handle_webhook never ends at such an event other than by
\* returning True after the last event, and a payload of such events only
\* returns True.
C12_UnrecognizedEventSkipped ==
    (last.op = "webhook" /\ last.data.payload_valid) =>
        /\ \A k \in DOMAIN last.log :
              last.data.Events[k].Name # "ReservationUpdated" =>
                /\ last.log[k].end = "ignored"
                /\ last.log[k].api = <<>>
                /\ last.log[k].creates = 0 /\ last.log[k].saves = 0
                /\ ~last.log[k].guests_changed /\ ~last.log[k].stays_changed
                /\ k < Len(last.data.Events) => k < Len(last.log)
                /\ k = Len(last.log) => last.ret = "True"
        /\ (\A k \in DOMAIN last.data.Events :
               last.data.Events[k].Name # "ReservationUpdated") =>
              (last.ret = "True" /\ Len(last.log) = Len(last.data.Events))

\* an unrecognized event, then a reservation update that creates a Stay
C12_Witness ==
    /\ last.op = "webhook"
    /\ Len(last.data.Events) = 2
    /\ last.data.Events[1].Name = "ReservationCancelled"
    /\ last.trace = <<"ignored", "created">>
    /\ last.ret = "True"

\* ------------------------------------------------------------------ C13
\* the upstream status of the reservation of event k is one of the six
KnownStatusAt(k) ==
    upstream.res[last.data.Events[k].ReservationId].Status \in DOMAIN DocumentedMapping

\* C13: when handle_webhook meets an unknown vendor status at an event, it
\* skips that reservation and handles every later event of the payload; for
\* each later reservation update with a known status (and a hotel that is
\* there) a Stay with the mapped status is in the table afterwards.
C13_UnknownStatusNonFatal ==
    (last.op = "webhook" /\ last.data.payload_valid /\ last.saveOk) =>
        \A k \in DOMAIN last.log :
            last.log[k].end = "unknown_status" =>
                /\ Len(last.log) = Len(last.data.Events)
                /\ \A j \in DOMAIN last.data.Events :
                      (/\ j > k
                       /\ last.data.Events[j].Name = "ReservationUpdated"
                       /\ KnownStatusAt(j)
                       /\ upstream.res[last.data.Events[j].ReservationId].fails < RetryLimit
                       /\ upstream.guest[upstream.res[last.data.Events[j].ReservationId].GuestId].fails
                             < RetryLimit) =>
                          \E s \in stays :
                             /\ s.pms_reservation_id = last.data.Events[j].ReservationId
                             /\ s.status = DocumentedMapping[
                                    upstream.res[last.data.Events[j].ReservationId].Status]

\* ------------------------------------------------------------------ C14
\* what the upstream API holds for the reservation of event k, and for its guest
ResAt(k) == upstream.res[last.data.Events[k].ReservationId]
GuestAt(k) == upstream.guest[ResAt(k).GuestId]
ResCallAt(k) == <<"get_reservation_details", last.data.Events[k].ReservationId>>
GuestCallAt(k) == <<"get_guest_details", ResAt(k).GuestId>>

\* C14: when handle_webhook reaches a reservation update whose
\* reservation-details fetch exhausts its retries, or whose reservation names
\* another hotel than the envelope, or whose guest-details fetch exhausts its
\* retries, it returns False (no exception) at that event, having written no
\* Guest and no Stay for it; on a hotel mismatch it has made the
\* reservation-details call only, no guest-details call.
C14_FetchFailureOrMismatch ==
    (last.op = "webhook" /\ last.data.payload_valid) =>
        \A k \in DOMAIN last.log :
            (/\ last.data.Events[k].Name = "ReservationUpdated"
             /\ \/ ResAt(k).fails >= 20
                \/ ResAt(k).HotelId # last.data.HotelId
                \/ GuestAt(k).fails >= 20) =>
                /\ last.ret = "False"
                /\ k = Len(last.log)
                /\ last.log[k].creates = 0 /\ last.log[k].saves = 0
                /\ ~last.log[k].guests_changed /\ ~last.log[k].stays_changed
                /\ last.log[k].api =
                      (IF ResAt(k).fails >= 20 \/ ResAt(k).HotelId # last.data.HotelId
                       THEN <<ResCallAt(k)>>
                       ELSE <<ResCallAt(k), GuestCallAt(k)>>)

\* a Stay is created for the first event; the second names another hotel
C14_Witness ==
    /\ last.op = "webhook"
    /\ last.trace = <<"created", "hotel_mismatch">>
    /\ last.ret = "False"
    /\ Len(last.api) = 3
    /\ Cardinality(stays) = 1

\* ------------------------------------------------------------------ C15
\* the reservations checking in on the target date, as upstream holds them
Batch == {r \in RIds : upstream.res[r].CheckInDate = TargetDate}

\* C15: when update_tomorrows_stays has returned True, it has made exactly one
\* upstream call, the batch fetch for the target date, and every reservation
\* of the batch with a known status has a Stay under its id with the mapped
\* status and the fetched dates.
C15_DailySync ==
    (last.op = "update_tomorrows_stays" /\ last.ret = "True") =>
        /\ last.api = <<<<"get_reservations_for_given_checkin_date", TargetDate>>>>
        /\ \A r \in Batch :
              upstream.res[r].Status \in DOMAIN DocumentedMapping =>
                 \E s \in stays :
                    /\ s.pms_reservation_id = r
                    /\ s.status = DocumentedMapping[upstream.res[r].Status]
                    /\ s.checkin = upstream.res[r].CheckInDate
                    /\ s.checkout = upstream.res[r].CheckOutDate

\* ------------------------------------------------------------------ C16
\* C16: every call of stay_has_breakfast makes one reservation-details fetch
\* for the Stay's reservation and returns False when the fetch fails after its
\* retries, the BreakfastIncluded value when it is a boolean, and None when it
\* is missing or not a boolean.
C16_Breakfast ==
    last.op = "stay_has_breakfast" =>
        /\ last.api = <<<<"get_reservation_details", last.rid>>>>
        /\ last.ret = (IF upstream.res[last.rid].fails >= 20 THEN "False"
                       ELSE IF last.breakfast \in {"True", "False"} THEN last.breakfast
                       ELSE None)

\* ------------------------------------------------------------------ C17
\* the (string, format) pairs that name a date
DatesThatParse ==
    {<<<<"2", "0", "2", "4", "-", "0", "5", "-", "0", "1">>,
       <<"%Y", "-", "%m", "-", "%d">>>>,
     <<<<"2", "0", "2", "4", "-", "5", "-", "1">>,
       <<"%Y", "-", "%m", "-", "%d">>>>,
     <<<<"2", "0", "2", "4", "-", "0", "2", "-", "2", "9">>,
       <<"%Y", "-", "%m", "-", "%d">>>>,
     <<<<"2", "0", "0", "0", "-", "0", "2", "-", "2", "9">>,
       <<"%Y", "-", "%m", "-", "%d">>>>,
     <<<<"0", "1", "/", "0", "5", "/", "2", "0", "2", "4">>,
       <<"%d", "/", "%m", "/", "%Y">>>>}

\* C17: date_is_valid never raises; it returns null_allowed for None and for
\* the empty string, and for any other value True exactly when the value
\* parses against the format.
C17_DateIsValid ==
    last.op = "date_is_valid" =>
        /\ last.ret.kind = "return"
        /\ last.ret.val =
              (IF last.datestr.type = "NoneType" \/ last.datestr.chars = <<>>
               THEN last.propertyallowsnull
               ELSE <<last.datestr.chars, last.dateformat>> \in DatesThatParse)

\* the same, for the values that are None or a str
C17_DateIsValidOfStrings ==
    (last.op = "date_is_valid" /\ last.datestr.type \in {"NoneType", "str"}) =>
        /\ last.ret.kind = "return"
        /\ last.ret.val =
              (IF last.datestr.type = "NoneType" \/ last.datestr.chars = <<>>
               THEN last.propertyallowsnull
               ELSE <<last.datestr.chars, last.dateformat>> \in DatesThatParse)

\* ------------------------------------------------------------------ C18
\* event k is a reservation update that comes to the hotel lookup, and no
\* Hotel has the pms_hotel_id its reservation names
HotelLookupFailsAt(k) ==
    /\ last.data.Events[k].Name = "ReservationUpdated"
    /\ ResAt(k).fails < 20
    /\ ResAt(k).HotelId = last.data.HotelId
    /\ \A h \in HotelTable : h.pms_hotel_id # ResAt(k).HotelId

\* C18: when the hotel lookup fails at an event, handle_webhook returns False
\* at that event (it neither raises nor returns True) and no Stay is created
\* or updated for it.
C18_HotelLookupFailure ==
    (last.op = "webhook" /\ last.data.payload_valid) =>
        \A k \in DOMAIN last.log :
            HotelLookupFailsAt(k) =>
                /\ last.ret = "False"
                /\ k = Len(last.log)
                /\ last.log[k].saves = 0
                /\ ~last.log[k].stays_changed

\* ------------------------------------------------------------------ C19
\* C19: when a save of the Stay fails at an event of handle_webhook, on the
\* create branch or on the update branch, the handling stops at that event and
\* handle_webhook does not return True.
C19_SaveFailureTerminal ==
    (last.op = "webhook" /\ ~last.saveOk) =>
        \A k \in DOMAIN last.log :
            last.log[k].saves > 0 =>
                /\ k = Len(last.log)
                /\ last.ret # "True"

\* ------------------------------------------------------------------ C20
\* both calls saw no Stay for the key and took the create branch
BothCreate == \A w \in Workers : workers[w].branch = "create"
RaceKeyStays == StayFilter(stays, RaceRid, RaceHotel)

\* C20: the upsert reads, then writes. When the callers take the lock on the
\* key, no state has both calls on the create branch, the key never has two
\* Stays and no save is refused for uniqueness; without the lock, when both
\* calls have seen 'absent' and have made their save, the key has two Stays or
\* the second save was refused for uniqueness. (That such a state is reached
\* without the lock is C20_Witness.)
C20_RaceNeedsLock ==
    /\ env.locking =>
          /\ ~BothCreate
          /\ Cardinality(RaceKeyStays) <= 1
          /\ \A w \in Workers : workers[w].error # "IntegrityError"
    /\ (BothCreate /\ \A w \in Workers : workers[w].pc = "done") =>
          /\ ~env.locking
          /\ IF env.unique
             THEN /\ Cardinality(RaceKeyStays) = 1
                  /\ \E w \in Workers : workers[w].error = "IntegrityError"
             ELSE Cardinality(RaceKeyStays) = 2

\* no lock, no unique key: both calls created, the key has two Stays
C20_Witness ==
    /\ ~env.locking /\ ~env.unique
    /\ BothCreate
    /\ \A w \in Workers : workers[w].pc = "done" /\ workers[w].ret.kind = "stay"
    /\ Cardinality(RaceKeyStays) = 2

\* ------------------------------------------------------------------ C21
\* event k is a reservation update that comes to the status mapping, and the
\* status upstream holds for its reservation is not one of the six
UnknownStatusAt(k) ==
    /\ last.data.Events[k].Name = "ReservationUpdated"
    /\ ResAt(k).fails < 20
    /\ ResAt(k).HotelId = last.data.HotelId
    /\ GuestAt(k).fails < 20
    /\ ResAt(k).Status \notin DOMAIN DocumentedMapping

\* C21: an event of handle_webhook whose reservation has an unknown vendor
\* status writes nothing: it creates no Guest, saves no Stay, and leaves both
\* tables as they were.
C21_UnknownStatusNoWriteAtAll ==
    (last.op = "webhook" /\ last.data.payload_valid) =>
        \A k \in DOMAIN last.log :
            UnknownStatusAt(k) =>
                /\ last.log[k].creates = 0
                /\ last.log[k].saves = 0
                /\ ~last.log[k].guests_changed
                /\ ~last.log[k].stays_changed

\* ------------------------------------------------------------------ C22
\* what upstream holds for the reservation an event names, and for its guest
ResOf(event) == upstream.res[event.ReservationId]
GuestOf(event) == upstream.guest[ResOf(event).GuestId]
IsUpdate(event) == event.Name = "ReservationUpdated"

\* the upstream calls of the events of a log, one event after the other
RECURSIVE CallsOf(_)
CallsOf(log) ==
    IF log = <<>> THEN <<>> ELSE Head(log).api \o CallsOf(Tail(log))

\* C22: when handle_webhook returns False for a valid payload, at event k,
\* the events 1..k were handled in list order (the upstream calls made are
\* those of event 1, then of event 2, ..., each for the reservation and guest
\* of its event), the events before k were handled to their end and their
\* writes are in the tables (the Guest of each, and the Stay of each with the
\* mapped status and the fetched dates when its save was accepted; no row there
\* was is gone), and nothing was done for an event after k: no log entry, no
\* upstream call, no new Guest and no new or changed Stay but those of the
\* events up to k.
C22_InOrderNoRollback ==
    [][(/\ last'.op = "webhook"
        /\ last'.data.payload_valid
        /\ last'.ret = "False") =>
         LET E == last'.data.Events
             log == last'.log
             k == Len(log)
         IN  /\ 1 <= k /\ k <= Len(E)
             /\ log[k].end \in {"reservation_fetch_failed", "hotel_mismatch",
                                "guest_fetch_failed", "guest_failed", "unknown_status"}
             /\ last'.api = CallsOf(log)
             /\ \A n \in 1..k :
                   IF IsUpdate(E[n])
                   THEN /\ Len(log[n].api) \in {1, 2}
                        /\ log[n].api[1] = <<"get_reservation_details", E[n].ReservationId>>
                        /\ Len(log[n].api) = 2 =>
                              log[n].api[2] = <<"get_guest_details", ResOf(E[n]).GuestId>>
                   ELSE log[n].api = <<>>
             /\ \A n \in 1..(k - 1) :
                   IF IsUpdate(E[n])
                   THEN /\ log[n].end \in {"created", "updated", "update_failed"}
                        /\ Len(log[n].api) = 2
                        /\ \E g \in guests' : g.phone = GuestOf(E[n]).Phone
                        /\ last'.saveOk =>
                              \E t \in stays' :
                                 /\ t.pms_reservation_id = E[n].ReservationId
                                 /\ t.status = DocumentedMapping[ResOf(E[n]).Status]
                                 /\ t.checkin = ResOf(E[n]).CheckInDate
                                 /\ t.checkout = ResOf(E[n]).CheckOutDate
                   ELSE log[n].end = "ignored"
             /\ guests \subseteq guests'
             /\ \A t \in stays : \E u \in stays' : u.id = t.id
             /\ \A g \in guests' \ guests :
                   \E n \in 1..k : IsUpdate(E[n]) /\ g.phone = GuestOf(E[n]).Phone
             /\ \A t \in stays' \ stays :
                   \E n \in 1..(k - 1) :
                      IsUpdate(E[n]) /\ t.pms_reservation_id = E[n].ReservationId]_vars

\* the first event created a Stay, the second failed on its status: the Stay
\* of the first is in the table
C22_Witness ==
    /\ last.op = "webhook"
    /\ last.ret = "False"
    /\ last.trace = <<"created", "unknown_status">>
    /\ \E t \in stays : t.pms_reservation_id = last.data.Events[1].ReservationId
    /\ last.data.Events[2].ReservationId # last.data.Events[1].ReservationId
====
